---- MODULE Spec2Model ----
(***************************************************************************)
(* A model of kusanagi's FFLogs event pagination (EventsStream), of the    *)
(* phase marker search built on it (PhaseMarker / EventMarker), and of     *)
(* the phase assembler (analyse_fight / analyse_phase).                    *)
(*                                                                         *)
(* The FFLogs API is the environment.  A report is a fixed log of wire     *)
(* events; the API answers a request for the window [start, end) with a    *)
(* page holding a non-empty prefix of the log's events inside that window  *)
(* (an empty page only when the window holds no event) and a next page     *)
(* timestamp of its choosing that is not before the requested start nor    *)
(* before the last event of the page.  A request may also fail.            *)
(***************************************************************************)
EXTENDS Integers, Sequences, FiniteSets, TLC

\* ---------------------------------------------------------------- bounds
MaxTime == 2
MaxLog == 2
MaxPageLen == 2
MaxFetches == 2
MaxSkip == 2
MaxPhases == 2
MaxFights == 2

\* ---------------------------------------------------------------- options
None == << >>
Some(x) == << x >>

Min(a, b) == IF a < b THEN a ELSE b

RECURSIVE Flatten(_)
Flatten(ss) == IF ss = << >> THEN << >> ELSE Head(ss) \o Flatten(Tail(ss))

\* ---------------------------------------------------------------- events
\* Wire events are what the API holds: a type tag, the ability guid (casts)
\* or target id (deaths), and a timestamp.
KnownTypes == {"begincast", "cast", "death", "damage"}

UnparseableEvent == [type |-> "unparseable"]

\* serde decoding of one element of the "events" array: the variant is
\* chosen by the type tag, any other tag gives the unit variant.
Decode(w) == IF w.type \in KnownTypes THEN w ELSE UnparseableEvent

DecodeAll(ws) == [i \in DOMAIN ws |-> Decode(ws[i])]

get_timestamp(ev) == IF ev.type = "unparseable" THEN None ELSE Some(ev.timestamp)

\* ---------------------------------------------------------------- state
VARIABLES
    report,                 \* the API's log of wire events for the report
    window,                 \* the filters the stream was built with
    filters,                \* EventsStream.filters (start, end)
    events,                 \* EventsStream.events.events
    next_page_timestamp,    \* EventsStream.events.next_page_timestamp
    current_event_position, \* EventsStream.current_event_position
    next_page,              \* EventsStream.next_page: None or the pending future
    fetches,                \* every request_events call of the stream, in order:
                            \* pending, ok / err (completed, not yet polled),
                            \* done / failed (polled to completion)
    polled,                 \* what the last poll_next returned
    panicked,               \* a completed future was polled again
    yielded,                \* the items the stream has handed to its consumer
    marker,                 \* the PhaseMarker being searched for
    skip_count,             \* choose_from_matching's skip_count
    chosen,                 \* what get_matching_event returned, once it has
    ended,                  \* the stream has signalled the end of the sequence
    late,                   \* polls and requests made after that signal
    definitions,            \* the encounter's PhaseDefinitionsPhase list
    fight,                  \* the fight's start_time and end_time
    latest_time_processed,  \* analyse_fight's cursor
    analysed_phases,        \* analyse_fight's RawPhaseData list
    idx,                    \* the position of the loop over definitions
    pc,                     \* where analyse_fight is: phase, start, end_begin,
                            \* end, done (Ok returned), api_error (ApiError
                            \* returned), invalid_match (InvalidEventMatchError
                            \* returned)
    res,                    \* analyse_phase's RawPhaseData under construction
    calls,                  \* the (definition, marker) pairs the API was asked for
    carried,                \* the start_time each analyse_phase call was given
    forward,                \* analysed_phases as the forward pass left it
    stopped_at,             \* the definition whose start marker matched nothing
    prog,                   \* what get_pull_stats made of the fight's analysis
    requested,              \* the encounter name the command was given
    phase_definitions,      \* PhaseDefinitionsCollection: name -> definitions
    report_fights,          \* the ReportFightsList request_fights returned
    matching_fights,        \* analyse_fights_from_report's matching_fights
    fight_no,               \* the position of the loop over matching_fights
    fights,                 \* analyse_fights_from_report's Vec<FightAnalysis>
    stage,                  \* where the command is: idle, request, loop,
                            \* analysing, returned
    outcome,                \* what the command replied with, once it has
    events_list,            \* request_all_events' events_list
    updated_filters,        \* request_all_events' updated_filters
    all_result,             \* what request_all_events returned, once it has
    serde,                  \* a JSON object and an event being converted: what
                            \* was given (wire or event) and what serde made
                            \* of it (decoded, encoded, back)
    typing                  \* where show_typing is: idle (not started), notify
                            \* (broadcast_typing awaited), delay (the timer
                            \* awaited), failed (the error returned)

streamVars == << window, filters, events, next_page_timestamp,
                 current_event_position, next_page, fetches, polled, panicked >>

matchVars == << marker, skip_count, chosen, ended, late >>

fightVars == << definitions, fight, latest_time_processed, analysed_phases, idx, pc,
                res, calls, carried, forward, stopped_at >>

statVars == << prog >>

reportVars == << requested, phase_definitions, report_fights, matching_fights, fight_no,
                 fights, stage, outcome >>

allVars == << events_list, updated_filters, all_result >>

vars == << report, streamVars, yielded, matchVars, fightVars, statVars, reportVars,
          allVars, serde, typing >>

\* ---------------------------------------------------------------- source
Times == 0 .. MaxTime

WireEvents(types, ids) == [type : types, id : ids, timestamp : Times]

IsSorted(s) == \A i \in 1 .. Len(s) - 1 : s[i].timestamp <= s[i + 1].timestamp

\* The logs of at most MaxLog events in non-decreasing timestamp order.
Reports(types, ids) ==
    { s \in UNION { [1 .. n -> WireEvents(types, ids)] : n \in 0 .. MaxLog } : IsSorted(s) }

InWindow(log, start, end) ==
    SelectSeq(log, LAMBDA w : w.timestamp >= start /\ w.timestamp < end)

PageLens(w) == IF w = << >> THEN {0} ELSE 1 .. Min(MaxPageLen, Len(w))

\* The next page timestamps the API may answer request number i for the
\* events w of [start, end) with, when it serves the first n of them: none,
\* the timestamp of the last served event, or that of the first event left
\* out (the end when none is left out); the last page it serves carries none.
Cursors(start, end, i, w, n) ==
    LET from == IF n = 0 THEN start ELSE w[n].timestamp
        upto == IF n < Len(w) THEN w[n + 1].timestamp ELSE end IN
    {None} \cup (IF i >= MaxFetches THEN {} ELSE {Some(from), Some(upto)})

\* The command is run against an API that pages as documented: a page is
\* as long as it may be, its cursor is the timestamp of the first event left
\* out of it, and there is none once the window is served.
FullPageLens(w) == {Min(MaxPageLen, Len(w))}

PagedCursors(i, w, n) ==
    IF n < Len(w) /\ i < MaxFetches THEN {Some(w[n + 1].timestamp)} ELSE {None}

\* ---------------------------------------------------------------- stream
\* get_event_iterator: no request is made, the cursor is the window's start.
get_event_iterator(start, end) ==
    /\ window' = [start |-> start, end |-> end]
    /\ filters' = [start |-> start, end |-> end]
    /\ events' = << >>
    /\ next_page_timestamp' = Some(start)
    /\ current_event_position' = 0
    /\ next_page' = None
    /\ fetches' = << >>

\* (variant: the cursor may equal the window's end)
CursorExhausted_Strict(new_start, end) == new_start > end

\* line 96: the cursor is at or past the window's end
CursorExhausted(new_start, end) == new_start >= end

\* (variant: the filters of a request are made anew, with the start alone)
MovedFilters_Default(f, new_start) == [start |-> new_start, end |-> 0]

\* lines 99 and 105: the stream's filters with the start moved to the
\* cursor, which request_events is given a clone of
MovedFilters(f, new_start) == [f EXCEPT !.start = new_start]

\* (variant: a request is made whether or not one is pending)
NoFetchPending_Always(np) == TRUE

\* line 101: whether request_events has to be called
NoFetchPending(np) == np = None

\* lines 127, 136: the position after an event is handed out
AdvancePosition(pos) == pos + 1

\* (variant: the cursor is never moved)
UpdatedCursor_Stale(old, page_next) == old

\* line 125: the cursor after a page arrived
UpdatedCursor(old, page_next) == page_next

\* (variant: the page is put in front of the buffer)
AppendPage_Prepend(buf, page_events) == page_events \o buf

\* line 124: the buffer after a page arrived
AppendPage(buf, page_events) == buf \o page_events

Ready(kind) == [kind |-> kind]
ReadyItem(ev) == [kind |-> "item", ev |-> ev]

\* EventsStream::poll_next
poll_next ==
    /\ ~panicked
    /\ UNCHANGED window
    /\ LET remaining_events == Len(events) - current_event_position IN
       IF remaining_events <= 0
       THEN IF next_page_timestamp = None
            THEN /\ polled' = Ready("end")
                 /\ UNCHANGED << filters, events, next_page_timestamp,
                                 current_event_position, next_page, fetches, panicked >>
            ELSE LET new_start == next_page_timestamp[1] IN
                 IF CursorExhausted(new_start, filters.end)
                 THEN /\ polled' = Ready("end")
                      /\ UNCHANGED << filters, events, next_page_timestamp,
                                      current_event_position, next_page, fetches, panicked >>
                 ELSE /\ filters' = MovedFilters(filters, new_start)
                      /\ IF NoFetchPending(next_page)
                         THEN \* request_events is called and polled once
                              /\ Len(fetches) < MaxFetches
                              /\ fetches' = Append(fetches,
                                     [start |-> filters'.start, end |-> filters'.end,
                                      state |-> "pending", wire |-> << >>, next |-> None])
                              /\ next_page' = Some(Len(fetches) + 1)
                              /\ polled' = Ready("pending")
                              /\ UNCHANGED << events, next_page_timestamp,
                                              current_event_position, panicked >>
                         ELSE LET i == next_page[1]
                                  fut == fetches[i] IN
                              CASE fut.state = "pending" ->
                                     /\ polled' = Ready("pending")
                                     /\ UNCHANGED << events, next_page_timestamp,
                                                     current_event_position, next_page,
                                                     fetches, panicked >>
                                [] fut.state = "err" ->
                                     /\ polled' = Ready("err")
                                     /\ fetches' = [fetches EXCEPT ![i].state = "failed"]
                                     /\ UNCHANGED << events, next_page_timestamp,
                                                     current_event_position, next_page,
                                                     panicked >>
                                [] fut.state = "ok" ->
                                     /\ next_page' = None
                                     /\ fetches' = [fetches EXCEPT ![i].state = "done"]
                                     /\ UNCHANGED panicked
                                     /\ IF Len(fut.wire) < 1
                                        THEN /\ polled' = Ready("end")
                                             /\ UNCHANGED << events, next_page_timestamp,
                                                             current_event_position >>
                                        ELSE /\ events' = AppendPage(events, DecodeAll(fut.wire))
                                             /\ next_page_timestamp' =
                                                    UpdatedCursor(next_page_timestamp, fut.next)
                                             /\ polled' = ReadyItem(events'[current_event_position + 1])
                                             /\ current_event_position' =
                                                    AdvancePosition(current_event_position)
                                [] OTHER ->
                                     \* the boxed async fn is resumed after completion
                                     /\ panicked' = TRUE
                                     /\ polled' = Ready("panic")
                                     /\ UNCHANGED << events, next_page_timestamp,
                                                     current_event_position, next_page,
                                                     fetches >>
       ELSE /\ polled' = ReadyItem(events[current_event_position + 1])
            /\ current_event_position' = AdvancePosition(current_event_position)
            /\ UNCHANGED << filters, events, next_page_timestamp, next_page,
                            fetches, panicked >>

\* request_events completing with a decoded page
SourceRespond ==
    /\ \E i \in DOMAIN fetches :
         /\ fetches[i].state = "pending"
         /\ LET w == InWindow(report, fetches[i].start, fetches[i].end) IN
            \E n \in IF stage = "idle" THEN PageLens(w) ELSE FullPageLens(w) :
               \E nx \in IF stage = "idle"
                         THEN Cursors(fetches[i].start, fetches[i].end, i, w, n)
                         ELSE PagedCursors(i, w, n) :
                  fetches' = [fetches EXCEPT ![i] =
                                 [@ EXCEPT !.state = "ok", !.wire = SubSeq(w, 1, n),
                                           !.next = nx]]
    /\ UNCHANGED << report, window, filters, events, next_page_timestamp,
                    current_event_position, next_page, polled, panicked, yielded,
                    matchVars, fightVars, statVars, reportVars, allVars, serde, typing >>

\* request_events completing with an ApiError
SourceFail ==
    /\ \E i \in DOMAIN fetches :
         /\ fetches[i].state = "pending"
         /\ fetches' = [fetches EXCEPT ![i].state = "err"]
    /\ UNCHANGED << report, window, filters, events, next_page_timestamp,
                    current_event_position, next_page, polled, panicked, yielded,
                    matchVars, fightVars, statVars, reportVars, allVars, serde, typing >>

\* ---------------------------------------------------------------- markers
FightStartMarker == [type |-> "fightStart"]

\* EventMarker::{BeginCast, EndCast, Death}: id is the marker's ability_id
\* (casts) or target_id (deaths).
EventMarker(evType, id, instance_no) ==
    [type |-> "event", evType |-> evType, id |-> id, instance_no |-> instance_no]

\* EventMarker::compare_to_event
\* (variant: the event's ability or target is not compared)
compare_to_event_KindOnly(m, ev) ==
    CASE m.evType = "BeginCast" -> ev.type = "begincast"
      [] m.evType = "Cast" -> ev.type = "cast"
      [] m.evType = "Death" -> ev.type = "death"

compare_to_event(m, ev) ==
    CASE m.evType = "BeginCast" -> ev.type = "begincast" /\ m.id = ev.id
      [] m.evType = "Cast" -> ev.type = "cast" /\ m.id = ev.id
      [] m.evType = "Death" -> ev.type = "death" /\ ev.id = m.id

\* (variant: instance_no is ignored)
InitialSkipCount_Zero(m) == 0

\* (variant: a negative instance_no counts as its magnitude)
InitialSkipCount_Magnitude(m) ==
    IF m.type = "fightStart" \/ m.instance_no = None THEN 0
    ELSE IF m.instance_no[1] < 0 THEN 0 - m.instance_no[1] ELSE m.instance_no[1]

\* choose_from_matching, lines 250-254: instance_no.unwrap_or(0)
InitialSkipCount(m) ==
    IF m.type = "fightStart" \/ m.instance_no = None THEN 0 ELSE m.instance_no[1]

\* (variant: the fight start marker takes the first cast begun)
Passes_CastBegun(m, ev) ==
    IF m.type = "fightStart" THEN ev.type = "begincast" ELSE compare_to_event(m, ev)

\* What the stream hands on: try_filter(compare_to_event) for an event
\* marker, the bare stream for the fight start marker.
Passes(m, ev) == m.type = "fightStart" \/ compare_to_event(m, ev)

Running == [kind |-> "running"]
Returned(opt) == [kind |-> "ok", value |-> opt]
Failed == [kind |-> "err"]

NotLate == [pull |-> FALSE, fetch |-> FALSE]

\* The task awaiting the stream is polled again once its pending fetch completes.
Blocked == next_page # None /\ fetches[next_page[1]].state = "pending"

\* One poll of the future of get_matching_event: the stream is polled once;
\* try_next hands a passing event or the end of the sequence to
\* choose_from_matching, which skips it or returns it.
search_poll ==
    /\ chosen = Running
    /\ ~Blocked
    /\ poll_next
    /\ yielded' = IF polled'.kind = "item" THEN Append(yielded, polled'.ev) ELSE yielded
    /\ ended' = (ended \/ polled'.kind = "end")
    /\ late' = [pull |-> late.pull \/ ended,
                fetch |-> late.fetch \/ (ended /\ Len(fetches') > Len(fetches))]
    /\ CASE polled'.kind = "err" ->
              chosen' = Failed /\ UNCHANGED skip_count
         [] polled'.kind \in {"pending", "panic"} ->
              UNCHANGED << chosen, skip_count >>
         [] polled'.kind = "item" /\ ~Passes(marker, polled'.ev) ->
              UNCHANGED << chosen, skip_count >>
         [] OTHER ->
              LET item == IF polled'.kind = "item" THEN Some(polled'.ev) ELSE None IN
              IF skip_count > 0
              THEN skip_count' = skip_count - 1 /\ UNCHANGED chosen
              ELSE chosen' = Returned(item) /\ UNCHANGED skip_count

\* ---------------------------------------------------------------- phases
\* (variant: the definition's name is not copied into the phase)
RawPhaseDefault_Unnamed(name) ==
    [phase_name |-> 0, phase_start |-> 0, phase_start_event |-> UnparseableEvent,
     phase_end |-> None, phase_end_event |-> None]

\* RawPhaseData::default() with the definition's name
RawPhaseDefault(name) ==
    [phase_name |-> name, phase_start |-> 0, phase_start_event |-> UnparseableEvent,
     phase_end |-> None, phase_end_event |-> None]

\* ---------------------------------------------------------------- statistics
\* a - b in u64: the difference, or the difference wrapped modulo 2^64,
\* which stands as 2^64 - millis.
U64Sub(a, b) ==
    IF a >= b THEN [wrapped |-> FALSE, millis |-> a - b]
    ELSE [wrapped |-> TRUE, millis |-> b - a]

\* Iterator::position over the definitions' names
position(defs, name) ==
    LET at == { k \in DOMAIN defs : defs[k].phase_name = name } IN
    IF at = {} THEN None ELSE Some((CHOOSE k \in at : \A j \in at : k <= j) - 1)

\* (variant: the last phase without an end is a wipe wherever it stands)
LastPhaseStatus_Wiped(defs, name) == "Wiped"

\* get_pull_stats, lines 163-177
LastPhaseStatus(defs, name) ==
    LET total_fight_phases == Len(defs) IN
    IF position(defs, name) = None THEN "Unknown"
    ELSE IF (total_fight_phases - 1) > position(defs, name)[1] THEN "Wiped" ELSE "Unknown"

\* get_pull_stats, line 153: phase_end.unwrap_or(next_phase.phase_start)
PhaseEnd(phase, next_phase, end_time) ==
    IF phase.phase_end # None THEN phase.phase_end[1] ELSE next_phase.phase_start

\* (variant: whether a phase has an end time decides its status, wherever
\* the phase stands)
PhaseProgress_ByEnd(raw, k) ==
    LET phase == raw.phases[k] IN
    IF phase.phase_end # None
    THEN [phase_name |-> phase.phase_name,
          phase_duration |-> U64Sub(phase.phase_end[1], phase.phase_start),
          phase_cleared |-> "Clear"]
    ELSE [phase_name |-> phase.phase_name,
          phase_duration |-> U64Sub(raw.end_time, phase.phase_start),
          phase_cleared |-> LastPhaseStatus(raw.definitions, phase.phase_name)]

\* get_pull_stats, lines 147-185: the PhaseProgress of the k-th phase, its
\* duration in milliseconds
PhaseProgress(raw, k) ==
    LET phase == raw.phases[k] IN
    IF k < Len(raw.phases)
    THEN [phase_name |-> phase.phase_name,
          phase_duration |-> U64Sub(PhaseEnd(phase, raw.phases[k + 1], raw.end_time),
                                    phase.phase_start),
          phase_cleared |-> "Clear"]
    ELSE IF phase.phase_end # None
         THEN [phase_name |-> phase.phase_name,
               phase_duration |-> U64Sub(phase.phase_end[1], phase.phase_start),
               phase_cleared |-> "Clear"]
         ELSE [phase_name |-> phase.phase_name,
               phase_duration |-> U64Sub(raw.end_time, phase.phase_start),
               phase_cleared |-> LastPhaseStatus(raw.definitions, phase.phase_name)]

FightAnalysis(defs, start_time, end_time, phases) ==
    [definitions |-> defs, start_time |-> start_time, end_time |-> end_time,
     phases |-> phases]

NoStats == [kind |-> "none"]
StatsPanic == [kind |-> "panic"]

\* get_pull_stats: the FightStatistics of an analysis; a subtraction that
\* overflows panics where overflow checks are compiled in and wraps where
\* they are not.
get_pull_stats(raw, overflow_checks) ==
    LET duration == U64Sub(raw.end_time, raw.start_time)
        phases_prog == [k \in DOMAIN raw.phases |-> PhaseProgress(raw, k)] IN
    IF overflow_checks /\ (duration.wrapped
                            \/ \E k \in DOMAIN phases_prog : phases_prog[k].phase_duration.wrapped)
    THEN StatsPanic
    ELSE [kind |-> "ok", duration |-> duration, prog |-> phases_prog,
          definitions |-> raw.definitions]

\* No command is being served.
NoCommand ==
    /\ requested = ""
    /\ phase_definitions = << >>
    /\ report_fights = None
    /\ matching_fights = << >>
    /\ fight_no = 0
    /\ fights = << >>
    /\ stage = "idle"
    /\ outcome = Running

\* Nothing is being converted.
NoSerde == serde = [given |-> "none"]

\* No typing notification is being sent.
NoTyping == typing = "idle"

\* request_all_events is not running.
NoAll ==
    /\ events_list = << >>
    /\ updated_filters = [start |-> 0, end |-> 0]
    /\ all_result = Running

\* No fight is being analysed.
NoFight ==
    /\ definitions = << >>
    /\ fight = [start_time |-> 0, end_time |-> 0]
    /\ latest_time_processed = 0
    /\ analysed_phases = << >>
    /\ idx = 0
    /\ pc = "idle"
    /\ res = RawPhaseDefault(0)
    /\ calls = {}
    /\ carried = << >>
    /\ forward = << >>
    /\ stopped_at = 0
    /\ prog = NoStats

\* The stream of a finished search is dropped.
no_stream ==
    /\ window' = [start |-> 0, end |-> 0]
    /\ filters' = [start |-> 0, end |-> 0]
    /\ events' = << >>
    /\ next_page_timestamp' = None
    /\ current_event_position' = 0
    /\ next_page' = None
    /\ fetches' = << >>
    /\ polled' = Ready("init")
    /\ panicked' = FALSE
    /\ yielded' = << >>
    /\ marker' = FightStartMarker
    /\ skip_count' = 0
    /\ chosen' = Running
    /\ ended' = FALSE
    /\ late' = NotLate

\* PhaseMarker::get_matching_event up to its first await: the stream is
\* built over [start_time, end_time) and the skip count is read.
get_matching_event(m, start_time, end_time) ==
    /\ get_event_iterator(start_time, end_time)
    /\ polled' = Ready("init")
    /\ panicked' = FALSE
    /\ yielded' = << >>
    /\ marker' = m
    /\ skip_count' = InitialSkipCount(m)
    /\ chosen' = Running
    /\ ended' = FALSE
    /\ late' = NotLate

\* analyse_fight, line 402
NeedsBackfill(p) == p.phase_end_event = None

\* analyse_fight, lines 388-406: every phase but the last takes the next
\* phase's start as its end when it needs one.
Backfill(phases) ==
    [k \in DOMAIN phases |->
        IF k < Len(phases) /\ NeedsBackfill(phases[k])
        THEN [phases[k] EXCEPT !.phase_end_event = Some(phases[k + 1].phase_start_event),
                               !.phase_end = Some(phases[k + 1].phase_start)]
        ELSE phases[k]]

\* (variant: the phases found so far are returned)
ApiErrorReturn_Ok == "done"

\* analyse_phase, lines 436 and 451, and analyse_fight, line 380: the
\* ApiError is returned through `?`
ApiErrorReturn == "api_error"

\* (variant: the phase is skipped and the next definition is tried)
AfterMiss_Skip(i, n) == i + 1

\* analyse_fight, lines 384-386: break leaves the loop over the definitions
AfterMiss(i, n) == n + 1

\* (variant: the cursor is moved to the phase's start whether or not it
\* has an end)
AdvancedCursor_Start(phase) == phase.phase_start

\* analyse_fight, line 382
AdvancedCursor(phase) ==
    IF phase.phase_end # None THEN phase.phase_end[1] ELSE phase.phase_start

\* The loop of analyse_fight moves to position i with the phases found so
\* far; past the last definition the backfill runs and Ok is returned.
continue_at(i, phases) ==
    /\ idx' = i
    /\ IF i > Len(definitions)
       THEN /\ forward' = phases
            /\ analysed_phases' = Backfill(phases)
            /\ pc' = "done"
       ELSE /\ analysed_phases' = phases
            /\ pc' = "phase"
            /\ UNCHANGED forward

\* analyse_phase returned Ok(Some(phase)): lines 381-383
phase_resolved(phase) ==
    /\ latest_time_processed' = AdvancedCursor(phase)
    /\ continue_at(idx + 1, Append(analysed_phases, phase))
    /\ UNCHANGED << res, stopped_at >>

NoteCall(role) ==
    calls' = IF Len(fetches') > Len(fetches) THEN calls \cup { << idx, role >> } ELSE calls

\* analyse_phase is called for the next definition: lines 425-434
PhaseBegin ==
    /\ pc = "phase"
    /\ carried' = Append(carried, latest_time_processed)
    /\ res' = RawPhaseDefault(definitions[idx].phase_name)
    /\ IF definitions[idx].start_marker # None
       THEN /\ get_matching_event(definitions[idx].start_marker[1],
                                  latest_time_processed, fight.end_time)
            /\ pc' = "start"
       ELSE /\ no_stream
            /\ pc' = "end_begin"
    /\ UNCHANGED << report, definitions, fight, latest_time_processed, analysed_phases,
                    idx, calls, forward, stopped_at, statVars, reportVars, allVars, serde, typing >>

\* the search for the start marker is polled: lines 433-444
StartStep ==
    /\ pc = "start"
    /\ search_poll
    /\ NoteCall("start")
    /\ UNCHANGED << report, marker, definitions, fight, carried, statVars, reportVars, allVars, serde, typing >>
    /\ CASE chosen' = Running ->
              UNCHANGED << latest_time_processed, analysed_phases, idx, pc, res,
                           forward, stopped_at >>
         [] chosen' = Failed ->
              /\ pc' = ApiErrorReturn
              /\ UNCHANGED << latest_time_processed, analysed_phases, idx, res,
                              forward, stopped_at >>
         [] chosen'.kind = "ok" /\ chosen'.value = None ->
              /\ stopped_at' = idx
              /\ continue_at(AfterMiss(idx, Len(definitions)), analysed_phases)
              /\ UNCHANGED << latest_time_processed, res >>
         [] OTHER ->
              LET ev == chosen'.value[1] IN
              IF get_timestamp(ev) = None
              THEN /\ pc' = "invalid_match"
                   /\ UNCHANGED << latest_time_processed, analysed_phases, idx, res,
                                   forward, stopped_at >>
              ELSE /\ res' = [res EXCEPT !.phase_start_event = ev,
                                         !.phase_start = get_timestamp(ev)[1]]
                   /\ pc' = "end_begin"
                   /\ UNCHANGED << latest_time_processed, analysed_phases, idx,
                                   forward, stopped_at >>

\* (variant: the end is searched for from the start_time analyse_phase
\* was given)
EndSearchStart_Given(phase, start_time) == start_time

\* analyse_phase, line 449: the end is searched for from the phase's start
EndSearchStart(phase, start_time) == phase.phase_start

\* analyse_phase after the start is known: lines 447-449, or line 459
EndBegin ==
    /\ pc = "end_begin"
    /\ IF definitions[idx].end_marker # None
       THEN /\ get_matching_event(definitions[idx].end_marker[1],
                                  EndSearchStart(res, latest_time_processed),
                                  fight.end_time)
            /\ pc' = "end"
            /\ UNCHANGED << latest_time_processed, analysed_phases, idx, res,
                            forward, stopped_at >>
       ELSE /\ no_stream
            /\ phase_resolved(res)
    /\ UNCHANGED << report, definitions, fight, calls, carried, statVars, reportVars, allVars, serde, typing >>

\* the search for the end marker is polled: lines 448-459
EndStep ==
    /\ pc = "end"
    /\ search_poll
    /\ NoteCall("end")
    /\ UNCHANGED << report, marker, definitions, fight, carried, statVars, reportVars, allVars, serde, typing >>
    /\ CASE chosen' = Running ->
              UNCHANGED << latest_time_processed, analysed_phases, idx, pc, res,
                           forward, stopped_at >>
         [] chosen' = Failed ->
              /\ pc' = ApiErrorReturn
              /\ UNCHANGED << latest_time_processed, analysed_phases, idx, res,
                              forward, stopped_at >>
         [] OTHER ->
              phase_resolved(
                 [res EXCEPT !.phase_end_event = chosen'.value,
                             !.phase_end = IF chosen'.value = None THEN None
                                           ELSE get_timestamp(chosen'.value[1])])

\* get_pull_stats is applied to the analysis analyse_fight returned
PullStats ==
    /\ pc = "done"
    /\ prog = NoStats
    /\ \E overflow_checks \in BOOLEAN :
          prog' = get_pull_stats(FightAnalysis(definitions, fight.start_time,
                                               fight.end_time, analysed_phases),
                                 overflow_checks)
    /\ UNCHANGED << report, streamVars, yielded, matchVars, fightVars, reportVars,
                    allVars, serde, typing >>

\* A consumer pulling the stream, as StreamExt::next does, for as long as it likes.
Pull ==
    /\ poll_next
    /\ yielded' = IF polled'.kind = "item" THEN Append(yielded, polled'.ev) ELSE yielded
    /\ UNCHANGED << report, matchVars, fightVars, statVars, reportVars, allVars, serde, typing >>

StreamTypes == {"damage", "unknown"}

Init ==
    /\ report \in Reports(StreamTypes, {1})
    /\ \E s \in Times, e \in Times :
         /\ window = [start |-> s, end |-> e]
         /\ filters = [start |-> s, end |-> e]
         /\ next_page_timestamp = Some(s)
    /\ events = << >>
    /\ current_event_position = 0
    /\ next_page = None
    /\ fetches = << >>
    /\ polled = Ready("init")
    /\ panicked = FALSE
    /\ yielded = << >>
    /\ marker = FightStartMarker
    /\ skip_count = 0
    /\ chosen = Running
    /\ ended = FALSE
    /\ late = NotLate
    /\ NoFight
    /\ NoCommand
    /\ NoAll
    /\ NoSerde
    /\ NoTyping

Next == Pull \/ SourceRespond \/ SourceFail

Spec == Init /\ [][Next]_vars

\* ---------------------------------------------------------------- matcher
MatchTypes == {"begincast", "cast"}
MatchIds == {1, 2}

MatchMarkers ==
    {FightStartMarker}
    \cup { EventMarker("BeginCast", 1, k) : k \in {None} \cup { Some(n) : n \in -1 .. MaxSkip } }

\* A search for an event marker over a window of the report.
InitMatch ==
    /\ report \in Reports(MatchTypes, MatchIds)
    /\ \E s \in Times, e \in Times :
         /\ window = [start |-> s, end |-> e]
         /\ filters = [start |-> s, end |-> e]
         /\ next_page_timestamp = Some(s)
    /\ events = << >>
    /\ current_event_position = 0
    /\ next_page = None
    /\ fetches = << >>
    /\ polled = Ready("init")
    /\ panicked = FALSE
    /\ yielded = << >>
    /\ marker \in MatchMarkers
    /\ skip_count = InitialSkipCount(marker)
    /\ chosen = Running
    /\ ended = FALSE
    /\ late = NotLate
    /\ NoFight
    /\ NoCommand
    /\ NoAll
    /\ NoSerde
    /\ NoTyping

MatchStep == search_poll /\ UNCHANGED << report, marker, fightVars, statVars, reportVars, allVars, serde, typing >>

NextMatch == MatchStep \/ SourceRespond \/ SourceFail

SpecMatch == InitMatch /\ [][NextMatch]_vars

\* A search for a marker of each kind over the whole of a report that holds
\* casts begun, casts completed and deaths.
KindTypes == {"begincast", "cast", "death"}

KindMarkers ==
    { EventMarker(evType, 1, k) : evType \in {"BeginCast", "Cast", "Death"},
                                  k \in {None, Some(1)} }

InitKinds ==
    /\ report \in { r \in Reports(KindTypes, MatchIds) :
                       \A i \in DOMAIN r : r[i].timestamp < MaxTime }
    /\ window = [start |-> 0, end |-> MaxTime]
    /\ filters = [start |-> 0, end |-> MaxTime]
    /\ next_page_timestamp = Some(0)
    /\ events = << >>
    /\ current_event_position = 0
    /\ next_page = None
    /\ fetches = << >>
    /\ polled = Ready("init")
    /\ panicked = FALSE
    /\ yielded = << >>
    /\ marker \in KindMarkers
    /\ skip_count = InitialSkipCount(marker)
    /\ chosen = Running
    /\ ended = FALSE
    /\ late = NotLate
    /\ NoFight
    /\ NoCommand
    /\ NoAll
    /\ NoSerde
    /\ NoTyping

SpecKinds == InitKinds /\ [][NextMatch]_vars

\* ---------------------------------------------------------------- fight
FightTypes == {"begincast", "unknown"}

PhaseMarkers == {None, Some(FightStartMarker), Some(EventMarker("BeginCast", 1, None))}

\* The markers of the phase at position k: the fight start marker is one
\* of the first phase only.
MarkersAt(k) == IF k = 1 THEN PhaseMarkers ELSE PhaseMarkers \ {Some(FightStartMarker)}

\* The definition lists of 1 to MaxPhases phases, named by their position.
PhaseLists ==
    UNION { { [k \in 1 .. n |-> [phase_name |-> k, start_marker |-> f[k][1],
                                  end_marker |-> f[k][2]]] :
              f \in { g \in [1 .. n -> PhaseMarkers \X PhaseMarkers] :
                        \A k \in 1 .. n : g[k] \in MarkersAt(k) \X MarkersAt(k) } } :
            n \in 1 .. MaxPhases }

\* analyse_fight is called for a fight of the report: lines 369-370
InitFight ==
    /\ \E s \in 0 .. 1 : fight = [start_time |-> s, end_time |-> MaxTime]
    /\ report \in { r \in Reports(FightTypes, {1}) :
                       \A i \in DOMAIN r : r[i].timestamp < fight.end_time }
    /\ definitions \in PhaseLists
    /\ latest_time_processed = fight.start_time
    /\ analysed_phases = << >>
    /\ idx = 1
    /\ pc = "phase"
    /\ res = RawPhaseDefault(0)
    /\ calls = {}
    /\ carried = << >>
    /\ forward = << >>
    /\ stopped_at = 0
    /\ prog = NoStats
    /\ NoCommand
    /\ NoAll
    /\ NoSerde
    /\ NoTyping
    /\ window = [start |-> 0, end |-> 0]
    /\ filters = [start |-> 0, end |-> 0]
    /\ events = << >>
    /\ next_page_timestamp = None
    /\ current_event_position = 0
    /\ next_page = None
    /\ fetches = << >>
    /\ polled = Ready("init")
    /\ panicked = FALSE
    /\ yielded = << >>
    /\ marker = FightStartMarker
    /\ skip_count = 0
    /\ chosen = Running
    /\ ended = FALSE
    /\ late = NotLate

NextFight ==
    PhaseBegin \/ StartStep \/ EndBegin \/ EndStep \/ SourceRespond \/ SourceFail \/ PullStats

SpecFight == InitFight /\ [][NextFight]_vars

\* ---------------------------------------------------------------- eager
\* request_all_events, lines 35-44: whether the loop goes round again
AllContinues(page, end) == page.next # None /\ page.next[1] < end

\* request_all_events calls request_events with updated_filters and awaits it
AllRequest(f) ==
    /\ Len(fetches) < MaxFetches
    /\ fetches' = Append(fetches, [start |-> f.start, end |-> f.end, state |-> "pending",
                                   wire |-> << >>, next |-> None])

\* request_all_events up to its first await: lines 29-33
AllStart ==
    /\ all_result = Running
    /\ fetches = << >>
    /\ AllRequest(updated_filters)
    /\ UNCHANGED << report, window, filters, events, next_page_timestamp,
                    current_event_position, next_page, polled, panicked, yielded,
                    matchVars, fightVars, statVars, reportVars, allVars, serde, typing >>

\* a page arrives: lines 33-45, and line 46 when the loop is left
AllResume ==
    /\ all_result = Running
    /\ fetches # << >>
    /\ LET i == Len(fetches)
           page == fetches[i] IN
       /\ page.state = "ok"
       /\ events_list' = events_list \o DecodeAll(page.wire)
       /\ IF AllContinues(page, updated_filters.end)
          THEN /\ updated_filters' = [updated_filters EXCEPT !.start = page.next[1]]
               /\ Len(fetches) < MaxFetches
               /\ fetches' = Append([fetches EXCEPT ![i].state = "done"],
                                    [start |-> page.next[1], end |-> updated_filters.end,
                                     state |-> "pending", wire |-> << >>, next |-> None])
               /\ UNCHANGED all_result
          ELSE /\ fetches' = [fetches EXCEPT ![i].state = "done"]
               /\ all_result' = Returned(events_list')
               /\ UNCHANGED updated_filters
    /\ UNCHANGED << report, window, filters, events, next_page_timestamp,
                    current_event_position, next_page, polled, panicked, yielded,
                    matchVars, fightVars, statVars, reportVars, serde, typing >>

\* request_events failed: line 33, `?`
AllFail ==
    /\ all_result = Running
    /\ fetches # << >>
    /\ fetches[Len(fetches)].state = "err"
    /\ fetches' = [fetches EXCEPT ![Len(fetches)].state = "failed"]
    /\ all_result' = Failed
    /\ UNCHANGED << report, window, filters, events, next_page_timestamp,
                    current_event_position, next_page, polled, panicked, yielded,
                    matchVars, fightVars, statVars, reportVars, events_list,
                    updated_filters, serde, typing >>

\* request_all_events is called for a window of the report.
InitAll ==
    /\ report \in Reports(StreamTypes, {1})
    /\ \E s \in Times, e \in Times :
         /\ window = [start |-> s, end |-> e]
         /\ updated_filters = [start |-> s, end |-> e]
    /\ filters = [start |-> 0, end |-> 0]
    /\ events = << >>
    /\ next_page_timestamp = None
    /\ current_event_position = 0
    /\ next_page = None
    /\ fetches = << >>
    /\ polled = Ready("init")
    /\ panicked = FALSE
    /\ yielded = << >>
    /\ marker = FightStartMarker
    /\ skip_count = 0
    /\ chosen = Running
    /\ ended = FALSE
    /\ late = NotLate
    /\ NoFight
    /\ NoCommand
    /\ events_list = << >>
    /\ all_result = Running
    /\ NoSerde
    /\ NoTyping

NextAll == AllStart \/ AllResume \/ AllFail \/ SourceRespond \/ SourceFail

SpecAll == InitAll /\ [][NextAll]_vars

\* ---------------------------------------------------------------- summary
\* A sum of durations: wraps * 2^64 + millis.
NoTime == [wraps |-> 0, millis |-> 0]

\* time += duration
AddDuration(time, d) ==
    IF d.wrapped THEN [wraps |-> time.wraps + 1, millis |-> time.millis - d.millis]
    ELSE [wraps |-> time.wraps, millis |-> time.millis + d.millis]

\* a as f32 / b as f32: the quotient of the two, NaN when both are 0
Ratio(a, b) == [num |-> a, den |-> b]

\* (variant: a phase is found in the fights that ended in it)
prog_position_Reached(fight_stat, name) ==
    LET n == Len(fight_stat.prog) IN
    IF n > 0 /\ fight_stat.prog[n].phase_name = name THEN Some(n) ELSE None

\* fight.prog.iter().position(|ph| ph.phase_name == name), from 1
prog_position(fight_stat, name) ==
    LET at == { k \in DOMAIN fight_stat.prog : fight_stat.prog[k].phase_name = name } IN
    IF at = {} THEN None ELSE Some(CHOOSE k \in at : \A j \in at : k <= j)

\* (variant: whatever is not a wipe counts as cleared)
IsCleared_NotWiped(entry) == entry.phase_cleared # "Wiped"

\* summarise_report, line 89
IsCleared(entry) == entry.phase_cleared = "Clear"

\* summarise_report, lines 77-95: the loop over the fights for one phase,
\* from fight i on, with the counters so far
RECURSIVE PhaseTotals(_, _, _, _)
PhaseTotals(fight_stats, name, i, acc) ==
    IF i > Len(fight_stats) THEN acc
    ELSE LET at == prog_position(fight_stats[i], name) IN
         IF at = None THEN PhaseTotals(fight_stats, name, i + 1, acc)
         ELSE LET entry == fight_stats[i].prog[at[1]] IN
              PhaseTotals(fight_stats, name, i + 1,
                  [time |-> AddDuration(acc.time, entry.phase_duration),
                   seen_count |-> acc.seen_count + 1,
                   cleared_count |-> acc.cleared_count + (IF IsCleared(entry) THEN 1 ELSE 0)])

\* summarise_report, lines 97-103
PhaseStatistics(fight_stats, phase) ==
    LET t == PhaseTotals(fight_stats, phase.phase_name, 1,
                         [time |-> NoTime, seen_count |-> 0, cleared_count |-> 0]) IN
    [name |-> phase.phase_name,
     total_time_spent |-> t.time,
     clear_rate |-> Ratio(t.cleared_count, t.seen_count),
     seen_rate |-> Ratio(t.seen_count, Len(fight_stats)),
     seen_count |-> t.seen_count]

\* summarise_report, lines 105-108
RECURSIVE TotalTime(_, _)
TotalTime(fight_stats, i) ==
    IF i > Len(fight_stats) THEN NoTime
    ELSE AddDuration(TotalTime(fight_stats, i + 1), fight_stats[i].duration)

\* (variant: the averages of no fight at all)
EmptySummary_Averaged ==
    [phases |-> << >>, average_duration |-> Ratio(NoTime, 0), pull_count |-> 0,
     total_time_spent_in_fights |-> NoTime]

\* summarise_report, lines 66-73
EmptySummary ==
    [phases |-> << >>, average_duration |-> Ratio(NoTime, 1), pull_count |-> 0,
     total_time_spent_in_fights |-> NoTime]

\* summarise_report
summarise_report(fight_stats) ==
    IF Len(fight_stats) = 0 THEN EmptySummary
    ELSE LET defs == fight_stats[1].definitions IN
         [phases |-> [k \in DOMAIN defs |-> PhaseStatistics(fight_stats, defs[k])],
          average_duration |-> Ratio(TotalTime(fight_stats, 1), Len(fight_stats)),
          pull_count |-> Len(fight_stats),
          total_time_spent_in_fights |-> TotalTime(fight_stats, 1)]

\* (variant: the rates are printed whatever the count)
NeverSeen_Ignored(stats) == FALSE

\* PhaseStatistics::fmt, line 53
NeverSeen(stats) == stats.seen_count = 0

\* PhaseStatistics::fmt: the message, and the numbers it prints
fmt_phase(stats) ==
    IF NeverSeen(stats)
    THEN [message |-> "This phase was never seen.", name |-> stats.name]
    ELSE [message |-> "rates", name |-> stats.name,
          total_time_spent |-> stats.total_time_spent,
          clear_rate |-> stats.clear_rate,
          seen_count |-> stats.seen_count,
          seen_rate |-> stats.seen_rate]

\* ReportSummary::fmt
fmt_summary(summary) ==
    [pull_count |-> summary.pull_count,
     average_duration |-> summary.average_duration,
     total_time_spent_in_fights |-> summary.total_time_spent_in_fights,
     phases |-> [k \in DOMAIN summary.phases |-> fmt_phase(summary.phases[k])]]

\* get_report_stats: get_pull_stats of every fight, a panic when one panics
get_report_stats(raw_fights, overflow_checks) ==
    LET stats == [i \in DOMAIN raw_fights |-> get_pull_stats(raw_fights[i], overflow_checks)] IN
    IF \E i \in DOMAIN stats : stats[i] = StatsPanic THEN StatsPanic
    ELSE [kind |-> "ok", fights |-> stats]

\* ---------------------------------------------------------------- command
FightNames == {"A", "B"}

Err(e) == [kind |-> "err", error |-> e]

UnknownFightError(name) == [kind |-> "err", error |-> "UnknownFightError", name |-> name]

\* The k-th fight of a report: fights follow one another and end with the log.
FightAt(k, name) ==
    [name |-> name, start_time |-> Min(k - 1, MaxTime - 1), end_time |-> MaxTime]

\* What the API may answer request_fights with: up to MaxFights fights,
\* named or not, and the report's start and end, either of which may be
\* missing.
ReportFightsLists ==
    { [fights |-> [k \in DOMAIN f |-> FightAt(k, f[k])], start |-> s, end |-> e] :
        f \in UNION { [1 .. m -> {None} \cup { Some(x) : x \in FightNames }] :
                       m \in 0 .. MaxFights },
        s \in {None, Some(0)}, e \in {None, Some(MaxTime)} }

\* The definitions the collection holds for an encounter: the first phase
\* starts with the fight and every later one at a cast; a phase ends at a
\* cast or has no end marker.
CommandPhaseLists ==
    { d \in PhaseLists :
        \A k \in DOMAIN d :
            /\ d[k].end_marker # Some(FightStartMarker)
            /\ d[k].start_marker = IF k = 1 THEN Some(FightStartMarker)
                                   ELSE Some(EventMarker("BeginCast", 1, None)) }

\* (variant: every fight of the report is taken)
pred_Any(f, name) == TRUE

\* analyse_fights_by_name, line 264
pred(f, name) == f.name = Some(name)

\* The FightAnalysis and the stream of a fight that was analysed are dropped.
drop_fight ==
    /\ no_stream
    /\ definitions' = << >>
    /\ fight' = [start_time |-> 0, end_time |-> 0]
    /\ latest_time_processed' = 0
    /\ analysed_phases' = << >>
    /\ idx' = 0
    /\ pc' = "idle"
    /\ res' = RawPhaseDefault(0)
    /\ calls' = {}
    /\ carried' = << >>
    /\ forward' = << >>
    /\ stopped_at' = 0

\* request_fights answers: lines 281-284
FightsRespond ==
    /\ stage = "request"
    /\ \E rf \in ReportFightsLists :
          /\ report_fights' = Some(rf)
          /\ matching_fights' = SelectSeq(rf.fights, LAMBDA f : pred(f, requested))
    /\ fight_no' = 1
    /\ stage' = "loop"
    /\ UNCHANGED << report, streamVars, yielded, matchVars, fightVars, statVars,
                    requested, phase_definitions, fights, outcome, allVars, serde, typing >>

\* request_fights fails: line 283, and the command replies with the error
FightsFail ==
    /\ stage = "request"
    /\ outcome' = Err("ApiError")
    /\ stage' = "returned"
    /\ UNCHANGED << report, streamVars, yielded, matchVars, fightVars, statVars,
                    requested, phase_definitions, report_fights, matching_fights,
                    fight_no, fights, allVars, serde, typing >>

\* the loop over matching_fights takes the next fight: lines 285-306
FightBegin ==
    /\ stage = "loop"
    /\ fight_no <= Len(matching_fights)
    /\ LET f == matching_fights[fight_no] IN
       IF f.name = None
       THEN /\ outcome' = Err("UnlabeledFight")
            /\ stage' = "returned"
            /\ UNCHANGED fightVars
       ELSE IF phase_definitions[f.name[1]] = None
            THEN /\ outcome' = UnknownFightError(f.name[1])
                 /\ stage' = "returned"
                 /\ UNCHANGED fightVars
            ELSE /\ definitions' = phase_definitions[f.name[1]][1]
                 /\ fight' = [start_time |-> f.start_time, end_time |-> f.end_time]
                 /\ latest_time_processed' = f.start_time
                 /\ analysed_phases' = << >>
                 /\ idx' = 1
                 /\ pc' = "phase"
                 /\ UNCHANGED << res, calls, carried, forward, stopped_at, outcome >>
                 /\ stage' = "analysing"
    /\ UNCHANGED << report, streamVars, yielded, matchVars, statVars, requested,
                    phase_definitions, report_fights, matching_fights, fight_no, fights,
                    allVars, serde, typing >>

\* analyse_fight returns: lines 307-308, and the command replies with its error
FightReturn ==
    /\ stage = "analysing"
    /\ pc \in {"done", "api_error", "invalid_match"}
    /\ IF pc = "done"
       THEN /\ fights' = Append(fights, FightAnalysis(definitions, fight.start_time,
                                                      fight.end_time, analysed_phases))
            /\ fight_no' = fight_no + 1
            /\ stage' = "loop"
            /\ UNCHANGED outcome
       ELSE /\ outcome' = Err(IF pc = "api_error" THEN "ApiError"
                              ELSE "InvalidEventMatchError")
            /\ stage' = "returned"
            /\ UNCHANGED << fights, fight_no >>
    /\ drop_fight
    /\ UNCHANGED << report, statVars, requested, phase_definitions, report_fights,
                    matching_fights, allVars, serde, typing >>

\* every matching fight was analysed: lines 310-320, then fight_stats'
\* get_report_stats, summarise_report and reply
Finish ==
    /\ stage = "loop"
    /\ fight_no > Len(matching_fights)
    /\ stage' = "returned"
    /\ IF report_fights[1].start = None \/ report_fights[1].end = None
       THEN outcome' = Err("UnspecifiedFightTime")
       ELSE \E overflow_checks \in BOOLEAN :
               LET report_stats == get_report_stats(fights, overflow_checks) IN
               IF report_stats = StatsPanic
               THEN outcome' = StatsPanic
               ELSE LET report_summary == summarise_report(report_stats.fights) IN
                    outcome' = [kind |-> "ok", report_stats |-> report_stats.fights,
                                report_summary |-> report_summary,
                                reply |-> fmt_summary(report_summary)]
    /\ UNCHANGED << report, streamVars, yielded, matchVars, fightVars, statVars,
                    requested, phase_definitions, report_fights, matching_fights,
                    fight_no, fights, allVars, serde, typing >>

\* fight_stats is called for an encounter of a report: request_fights is awaited.
\* The events of the reports the command is run on: casts beginning and
\* casts completed.
CommandTypes == {"begincast", "cast"}

InitCommand ==
    /\ report \in { r \in Reports(CommandTypes, {1}) :
                       \A i \in DOMAIN r : r[i].timestamp < MaxTime }
    /\ requested \in FightNames
    /\ phase_definitions \in { [name \in FightNames |-> IF name = "A" THEN Some(d) ELSE None] :
                                  d \in CommandPhaseLists }
    /\ report_fights = None
    /\ matching_fights = << >>
    /\ fight_no = 0
    /\ fights = << >>
    /\ stage = "request"
    /\ outcome = Running
    /\ NoFight
    /\ NoAll
    /\ NoSerde
    /\ NoTyping
    /\ window = [start |-> 0, end |-> 0]
    /\ filters = [start |-> 0, end |-> 0]
    /\ events = << >>
    /\ next_page_timestamp = None
    /\ current_event_position = 0
    /\ next_page = None
    /\ fetches = << >>
    /\ polled = Ready("init")
    /\ panicked = FALSE
    /\ yielded = << >>
    /\ marker = FightStartMarker
    /\ skip_count = 0
    /\ chosen = Running
    /\ ended = FALSE
    /\ late = NotLate

NextCommand ==
    \/ FightsRespond \/ FightsFail \/ FightBegin \/ FightReturn \/ Finish
    \/ PhaseBegin \/ StartStep \/ EndBegin \/ EndStep \/ SourceRespond \/ SourceFail

SpecCommand == InitCommand /\ [][NextCommand]_vars

\* Repeated pulling by the consumer and an API that answers every request.
LiveSpec == Init /\ [][Next]_vars /\ WF_vars(Pull) /\ WF_vars(SourceRespond)

\* ---------------------------------------------------------------- typing
\* select! is still polling the analysis and show_typing: lines 36-39
Racing == stage \notin {"idle", "returned"}

\* (variant: the loop returns Ok after one round)
AfterDelay_Return == "returned"

\* show_typing, lines 68-72: after the delay the loop goes round again
AfterDelay == "notify"

\* fight_stats, lines 38-42: select! completes with show_typing's arm, the
\* analysis is dropped where it is and the command returns the CommandError
\* without replying.
typing_arm ==
    /\ stage' = "returned"
    /\ outcome' = Err("CommandError")
    /\ drop_fight
    /\ UNCHANGED << report, statVars, requested, phase_definitions, report_fights,
                    matching_fights, fight_no, fights, allVars, serde >>

\* broadcast_typing succeeded, and the timer is started: lines 69-71
TypingSent ==
    /\ Racing
    /\ typing = "notify"
    /\ typing' = "delay"
    /\ UNCHANGED << report, streamVars, yielded, matchVars, fightVars, statVars,
                    reportVars, allVars, serde >>

\* broadcast_typing failed, and show_typing returns the error: line 69
TypingFail ==
    /\ Racing
    /\ typing = "notify"
    /\ typing' = "failed"
    /\ typing_arm

\* the timer ran out: lines 71-72
TypingDelayed ==
    /\ Racing
    /\ typing = "delay"
    /\ typing' = AfterDelay
    /\ IF typing' = "notify"
       THEN UNCHANGED << report, streamVars, yielded, matchVars, fightVars, statVars,
                         reportVars, allVars, serde >>
       ELSE typing_arm

\* The events of the reports the race is run on.
RaceTypes == {"begincast"}

\* fight_stats reaches select!: neither future has been polled.
InitRace ==
    /\ report \in { r \in Reports(RaceTypes, {1}) :
                       \A i \in DOMAIN r : r[i].timestamp < MaxTime }
    /\ requested \in FightNames
    /\ phase_definitions \in { [name \in FightNames |-> IF name = "A" THEN Some(d) ELSE None] :
                                  d \in CommandPhaseLists }
    /\ report_fights = None
    /\ matching_fights = << >>
    /\ fight_no = 0
    /\ fights = << >>
    /\ stage = "request"
    /\ outcome = Running
    /\ typing = "notify"
    /\ NoFight
    /\ NoAll
    /\ NoSerde
    /\ window = [start |-> 0, end |-> 0]
    /\ filters = [start |-> 0, end |-> 0]
    /\ events = << >>
    /\ next_page_timestamp = None
    /\ current_event_position = 0
    /\ next_page = None
    /\ fetches = << >>
    /\ polled = Ready("init")
    /\ panicked = FALSE
    /\ yielded = << >>
    /\ marker = FightStartMarker
    /\ skip_count = 0
    /\ chosen = Running
    /\ ended = FALSE
    /\ late = NotLate

NextRace == NextCommand \/ TypingSent \/ TypingFail \/ TypingDelayed

SpecRace == InitRace /\ [][NextRace]_vars

\* ---------------------------------------------------------------- serde
\* A JSON object is a record over WireKeys; a member is absent, null or a
\* value.
Absent == << >>
Null == << "null" >>
Val(v) == << "val", v >>

IsVal(x) == Len(x) = 2

WireKeys == {"type", "timestamp", "sourceID", "sourceIsFriendly", "targetID",
             "targetIsFriendly", "ability", "packetID", "killerID", "value", "bars"}

EmptyObject == [k \in WireKeys |-> Absent]

\* (variant: the variants are written under their Rust identifiers)
TypeTag_Identifier(variant) == variant

\* #[serde(tag = "type")] with the variants' rename attributes; the
\* #[serde(other)] variant has none
TypeTag(variant) ==
    CASE variant = "BeginCast" -> "begincast"
      [] variant = "Death" -> "death"
      [] variant = "LimitBreakUpdate" -> "limitbreakupdate"
      [] OTHER -> variant

\* the variant a type tag selects when an object is read
VariantOf(tag) ==
    CASE tag = "begincast" -> "BeginCast"
      [] tag = "death" -> "Death"
      [] tag = "limitbreakupdate" -> "LimitBreakUpdate"
      [] OTHER -> "UnparseableEvent"

\* Option<T>: a missing member and null both read as None
ReadOption(x) == IF IsVal(x) THEN Some(x[2]) ELSE None

\* Option<T> is written as null or as the value
WriteOption(o) == IF o = None THEN Null ELSE Val(o[1])

\* Ability: guid is required, abilityIcon is an Option
AbilityReads(x) == IsVal(x) /\ IsVal(x[2].guid)

ReadAbility(x) == [guid |-> x[2].guid[2], icon |-> ReadOption(x[2].abilityIcon)]

WriteAbility(a) == Val([guid |-> Val(a.guid), abilityIcon |-> WriteOption(a.icon)])

\* #[serde(flatten)] source: Source, whose sourceIsFriendly is required
SourceReads(w) == IsVal(w.sourceIsFriendly)

ReadSource(w) == [id |-> ReadOption(w.sourceID), is_friendly |-> w.sourceIsFriendly[2]]

\* #[serde(flatten)] target: Option<Target>: Some when a Target can be read
\* from the object's members, None when it cannot
ReadTarget(w) ==
    IF IsVal(w.targetIsFriendly)
    THEN Some([id |-> ReadOption(w.targetID), is_friendly |-> w.targetIsFriendly[2]])
    ELSE None

DecodeError == [variant |-> "error"]

\* serde_json::from_str::<ReportEvent>
Deserialize(w) ==
    IF ~IsVal(w.type) THEN DecodeError
    ELSE LET variant == VariantOf(w.type[2]) IN
         CASE variant = "BeginCast" ->
                IF IsVal(w.timestamp) /\ SourceReads(w) /\ AbilityReads(w.ability)
                THEN [variant |-> variant, timestamp |-> w.timestamp[2],
                      source |-> ReadSource(w), target |-> ReadTarget(w),
                      ability |-> ReadAbility(w.ability),
                      packet_id |-> ReadOption(w.packetID)]
                ELSE DecodeError
           [] variant = "Death" ->
                IF /\ IsVal(w.timestamp)
                   /\ SourceReads(w)
                   /\ (IsVal(w.ability) => AbilityReads(w.ability))
                THEN [variant |-> variant, timestamp |-> w.timestamp[2],
                      source |-> ReadSource(w), target |-> ReadTarget(w),
                      ability |-> IF IsVal(w.ability) THEN Some(ReadAbility(w.ability))
                                  ELSE None,
                      killer_id |-> ReadOption(w.killerID)]
                ELSE DecodeError
           [] variant = "LimitBreakUpdate" ->
                IF IsVal(w.timestamp) /\ IsVal(w.value) /\ IsVal(w.bars)
                THEN [variant |-> variant, timestamp |-> w.timestamp[2],
                      value |-> w.value[2], bars |-> w.bars[2]]
                ELSE DecodeError
           [] OTHER -> [variant |-> "UnparseableEvent"]

\* the members a flattened Source and a flattened Option<Target> write
WriteActors(obj, ev) ==
    LET with_source == [obj EXCEPT !.sourceID = WriteOption(ev.source.id),
                                   !.sourceIsFriendly = Val(ev.source.is_friendly)] IN
    IF ev.target = None THEN with_source
    ELSE [with_source EXCEPT !.targetID = WriteOption(ev.target[1].id),
                             !.targetIsFriendly = Val(ev.target[1].is_friendly)]

\* serde_json::to_string of a ReportEvent
Serialize(ev) ==
    LET tagged == [EmptyObject EXCEPT !.type = Val(TypeTag(ev.variant))] IN
    CASE ev.variant = "BeginCast" ->
           [WriteActors(tagged, ev) EXCEPT !.timestamp = Val(ev.timestamp),
                                           !.ability = WriteAbility(ev.ability),
                                           !.packetID = WriteOption(ev.packet_id)]
      [] ev.variant = "Death" ->
           [WriteActors(tagged, ev) EXCEPT
               !.timestamp = Val(ev.timestamp),
               !.ability = IF ev.ability = None THEN Null ELSE WriteAbility(ev.ability[1]),
               !.killerID = WriteOption(ev.killer_id)]
      [] ev.variant = "LimitBreakUpdate" ->
           [tagged EXCEPT !.timestamp = Val(ev.timestamp), !.value = Val(ev.value),
                          !.bars = Val(ev.bars)]
      [] OTHER -> tagged

\* The values of the model's JSON members.
OptionalNumbers == {Absent, Null, Val(1)}
AbilityObjects == { Val([guid |-> Val(g), abilityIcon |-> i]) :
                      g \in MatchIds, i \in {Absent, Null, Val("icon.png")} }

\* The members of the actors as the structs describe them: the source with
\* its sourceIsFriendly, the target with its targetIsFriendly or not at all.
ActorShapes ==
    { [EmptyObject EXCEPT !.sourceID = s, !.sourceIsFriendly = Val(sf),
                          !.targetID = t[1], !.targetIsFriendly = t[2]] :
        s \in OptionalNumbers, sf \in BOOLEAN,
        t \in {<< Absent, Absent >>}
              \cup { << id, Val(tf) >> : id \in OptionalNumbers, tf \in BOOLEAN } }

\* The wire shapes of the events: a type tag and the members of its variant.
WireShapes ==
    { [a EXCEPT !.type = Val("begincast"), !.timestamp = Val(ts), !.ability = ab,
                !.packetID = pk] :
        a \in ActorShapes, ts \in {0, MaxTime}, ab \in AbilityObjects,
        pk \in OptionalNumbers }
    \cup { [a EXCEPT !.type = Val("death"), !.timestamp = Val(ts), !.ability = ab,
                     !.killerID = k] :
        a \in ActorShapes, ts \in {0, MaxTime},
        ab \in {Absent, Null} \cup AbilityObjects, k \in OptionalNumbers }
    \cup { [EmptyObject EXCEPT !.type = Val("limitbreakupdate"), !.timestamp = Val(ts),
                               !.value = Val(v), !.bars = Val(b)] :
        ts \in {0, MaxTime}, v \in {0, 1}, b \in {0, 1} }
    \cup { [EmptyObject EXCEPT !.type = Val("unknown"), !.timestamp = Val(0)] }

\* The events of the model's variants.
Sources == [id : {None, Some(1)}, is_friendly : BOOLEAN]
Targets == {None} \cup { Some(t) : t \in [id : {None, Some(1)}, is_friendly : BOOLEAN] }
Abilities == [guid : MatchIds, icon : {None, Some("icon.png")}]

ReportEvents ==
    [variant : {"BeginCast"}, timestamp : {0, MaxTime}, source : Sources,
     target : Targets, ability : Abilities, packet_id : {None, Some(1)}]
    \cup [variant : {"Death"}, timestamp : {0, MaxTime}, source : Sources,
          target : Targets, ability : {None} \cup { Some(a) : a \in Abilities },
          killer_id : {None, Some(1)}]
    \cup [variant : {"LimitBreakUpdate"}, timestamp : {0, MaxTime}, value : {0, 1},
          bars : {0, 1}]
    \cup {[variant |-> "UnparseableEvent"]}

\* A JSON object is read: the API's, or the one an event was written to.
from_str ==
    /\ \/ /\ serde.given = "wire"
          /\ serde' = [given |-> "read", wire |-> serde.wire,
                       event |-> Deserialize(serde.wire)]
       \/ /\ serde.given = "written"
          /\ serde' = [given |-> "back", event |-> serde.event, wire |-> serde.wire,
                       back |-> Deserialize(serde.wire)]
    /\ UNCHANGED << report, streamVars, yielded, matchVars, fightVars, statVars,
                    reportVars, allVars, typing >>

\* An event is written: one that was made, or the one an object was read as.
to_string ==
    /\ \/ /\ serde.given = "event"
          /\ serde' = [given |-> "written", event |-> serde.event,
                       wire |-> Serialize(serde.event)]
       \/ /\ serde.given = "read"
          /\ serde.event # DecodeError
          /\ serde' = [given |-> "rewritten", wire |-> serde.wire, event |-> serde.event,
                       rewritten |-> Serialize(serde.event)]
    /\ UNCHANGED << report, streamVars, yielded, matchVars, fightVars, statVars,
                    reportVars, allVars, typing >>

InitSerde ==
    /\ \/ \E w \in WireShapes : serde = [given |-> "wire", wire |-> w]
       \/ \E ev \in ReportEvents : serde = [given |-> "event", event |-> ev]
    /\ report = << >>
    /\ window = [start |-> 0, end |-> 0]
    /\ filters = [start |-> 0, end |-> 0]
    /\ events = << >>
    /\ next_page_timestamp = None
    /\ current_event_position = 0
    /\ next_page = None
    /\ fetches = << >>
    /\ polled = Ready("init")
    /\ panicked = FALSE
    /\ yielded = << >>
    /\ marker = FightStartMarker
    /\ skip_count = 0
    /\ chosen = Running
    /\ ended = FALSE
    /\ late = NotLate
    /\ NoFight
    /\ NoCommand
    /\ NoAll
    /\ NoTyping

NextSerde == from_str \/ to_string

SpecSerde == InitSerde /\ [][NextSerde]_vars

\* ================================================================ claims
\* The wire events of every page the API has served to the stream, in order.
ServedWire == Flatten([i \in DOMAIN fetches |-> fetches[i].wire])

InStreamWindow(w) == w.timestamp >= window.start /\ w.timestamp < window.end

PendingFetches == { i \in DOMAIN fetches : fetches[i].state = "pending" }

FetchFailed == \E i \in DOMAIN fetches : fetches[i].state \in {"err", "failed"}

C2_SingleFetch ==
    [][ /\ Cardinality(PendingFetches') <= 1
        /\ PendingFetches # {} => Len(fetches') = Len(fetches)
        /\ Len(fetches') > Len(fetches) =>
              \A i \in DOMAIN fetches : fetches[i].state = "done" ]_vars

\* a second fetch is pending after the first one's page was taken
C2_Witness ==
    /\ Len(fetches) = 2
    /\ fetches[1].state = "done"
    /\ fetches[2].state = "pending"
    /\ polled.kind = "pending"

\* C3: every request the stream issues starts before the window's end and
\* keeps that end, so a stream over a window with s >= e issues none.
C3_NoFetchPastEnd ==
    /\ \A i \in DOMAIN fetches :
          /\ fetches[i].start < window.end
          /\ fetches[i].end = window.end
    /\ window.start >= window.end => fetches = << >>

\* the API returned the window's end as the next page timestamp and the
\* stream ended there without another request
C3_Witness ==
    /\ polled.kind = "end"
    /\ Len(fetches) = 1
    /\ fetches[1].state = "done"
    /\ fetches[1].wire # << >>
    /\ fetches[1].next = Some(window.end)

\* C4: once a fetch has failed and the error was handed out, a later pull
\* issues no request, does not poll the failed fetch again and signals the
\* end of the sequence.
C4_FailureTerminates ==
    [][ (\E i \in DOMAIN fetches : fetches[i].state = "failed") =>
           /\ fetches' = fetches
           /\ ~panicked'
           /\ polled' # polled => polled'.kind = "end" ]_vars

\* C5: with a consumer that keeps pulling and an API that answers, the
\* stream signals the end of the sequence unless a fetch fails.
C5_Terminates == <>(polled.kind = "end" \/ FetchFailed)

\* the end of the sequence after the last page the API serves
C5_Witness ==
    /\ polled.kind = "end"
    /\ ~FetchFailed
    /\ Len(fetches) >= 2
    /\ \A i \in DOMAIN fetches : fetches[i].state = "done"

\* The events handed out by the stream that satisfy the marker's predicate.
Matches == SelectSeq(yielded, LAMBDA ev : compare_to_event(marker, ev))

InstanceNumber == IF marker.instance_no = None THEN 0 ELSE marker.instance_no[1]

\* C6: a search for an event marker with instance number k >= 0 that
\* returns an event returns the (k+1)-th event of the stream satisfying the
\* predicate, and one that returns none does so after the stream ended
\* with at most k such events.
C6_SkipCorrect ==
    (marker.type = "event" /\ InstanceNumber >= 0 /\ chosen.kind = "ok") =>
        IF chosen.value = None
        THEN ended /\ Len(Matches) <= InstanceNumber
        ELSE /\ Len(Matches) = InstanceNumber + 1
             /\ chosen.value = Some(Matches[InstanceNumber + 1])

\* the second match is returned after a non-matching event was discarded
C6_Witness ==
    /\ marker.type = "event"
    /\ InstanceNumber = 1
    /\ chosen.kind = "ok"
    /\ chosen.value # None
    /\ Len(yielded) > Len(Matches)

\* C7: the search polls the stream no more, and so causes no request, once
\* the stream has signalled the end of the sequence.
C7_StopsPulling == ~late.pull /\ ~late.fetch

\* The phases as the loop over the definitions left them, before the backfill.
ForwardPhases == IF pc = "done" THEN forward ELSE analysed_phases

\* C8: when the search for the start marker of phase i returns no event,
\* the analysis is over at once: the phases resolved are those before i,
\* and the only requests ever made for phase i or a later phase are those
\* of phase i's start search.
C8_HardStop ==
    stopped_at # 0 =>
        /\ pc = "done"
        /\ Len(analysed_phases) = stopped_at - 1
        /\ \A k \in DOMAIN analysed_phases : analysed_phases[k].phase_name < stopped_at
        /\ \A c \in calls : c[1] < stopped_at \/ c = << stopped_at, "start" >>

\* the first of two phases has both markers and its start marker was
\* searched for, through a request, and not found
C8_Witness ==
    /\ stopped_at = 1
    /\ Len(definitions) = 2
    /\ definitions[1].end_marker # None
    /\ definitions[2].start_marker # None
    /\ << 1, "start" >> \in calls
    /\ analysed_phases = << >>

\* C9: a resolved phase whose definition has no start marker starts at the
\* cursor carried into it, which is the fight's start for the first phase
\* and after that the previous phase's end, or its start when it has none.
C9_StartsAtCursor ==
    \A k \in DOMAIN ForwardPhases :
        /\ carried[k] = IF k = 1 THEN fight.start_time
                        ELSE AdvancedCursor(ForwardPhases[k - 1])
        /\ definitions[k].start_marker = None =>
              ForwardPhases[k].phase_start = carried[k]

\* C10: when the analysis returns, a phase other than the last that had no
\* end time after the loop over the definitions ends at the start of the
\* phase after it, and every other phase is as the loop left it.
C10_Backfilled ==
    pc = "done" =>
        /\ Len(analysed_phases) = Len(forward)
        /\ \A k \in DOMAIN forward :
              IF k < Len(forward) /\ forward[k].phase_end = None
              THEN analysed_phases[k].phase_end = Some(forward[k + 1].phase_start)
              ELSE analysed_phases[k] = forward[k]

\* The phases get_pull_stats was given.
StatPhases == analysed_phases

\* C11: in the statistics of a fight, the last resolved phase, when it has
\* no end time, lasts from its start to the fight's end and is Wiped when
\* its definition is not the last of the list and Unknown when it is.
C11_LastPhaseOpen ==
    (prog.kind = "ok" /\ StatPhases # << >>
        /\ StatPhases[Len(StatPhases)].phase_end = None) =>
        LET n == Len(StatPhases)
            entry == prog.prog[n] IN
        /\ Len(prog.prog) = n
        /\ entry.phase_name = definitions[n].phase_name
        /\ entry.phase_duration =
              [wrapped |-> FALSE, millis |-> fight.end_time - StatPhases[n].phase_start]
        /\ entry.phase_cleared = IF n < Len(definitions) THEN "Wiped" ELSE "Unknown"

\* only the first of two phases was resolved, without an end, after the
\* fight's start: it is a wipe
C11_Witness ==
    /\ prog.kind = "ok"
    /\ Len(definitions) = 2
    /\ Len(StatPhases) = 1
    /\ StatPhases[1].phase_end = None
    /\ StatPhases[1].phase_start > 0
    /\ prog.prog[1].phase_cleared = "Wiped"
    /\ prog.prog[1].phase_duration.millis = fight.end_time - StatPhases[1].phase_start

\* the end time the statistics of phase k rest on: its own, or the next
\* phase's start
StatEnd(k) ==
    IF StatPhases[k].phase_end # None THEN StatPhases[k].phase_end[1]
    ELSE StatPhases[k + 1].phase_start

\* C12: in the statistics of a fight, every phase but the last, and a last
\* phase with an end time, is Clear and lasts from its start to its end.
C12_ClearDuration ==
    prog.kind = "ok" =>
        \A k \in DOMAIN StatPhases :
            (k < Len(StatPhases) \/ StatPhases[k].phase_end # None) =>
                /\ prog.prog[k].phase_cleared = "Clear"
                /\ prog.prog[k].phase_duration =
                      [wrapped |-> FALSE, millis |-> StatEnd(k) - StatPhases[k].phase_start]

ApiErrorSeen == \E i \in DOMAIN fetches : fetches[i].state = "failed"

\* C13: once a request of a marker search has failed, analyse_fight has
\* returned the error: the phases found so far are handed to nobody (no
\* statistics are made of them) and nothing happens any more, no request
\* in particular.
C13_ErrorAborts ==
    [][ ApiErrorSeen' =>
           /\ pc' = "api_error"
           /\ prog' = NoStats
           /\ ApiErrorSeen => UNCHANGED vars ]_vars

\* the search for the end marker of the second phase failed after the
\* first phase was resolved
C13_Witness ==
    /\ pc = "api_error"
    /\ ApiErrorSeen
    /\ Len(analysed_phases) = 1
    /\ idx = 2
    /\ << 2, "end" >> \in calls

\* C16: request_all_events ends as a stream over the same window does:
\* it returns the decoded pages it was served, in order, it makes no
\* request that starts at or after the window's end, and a page without
\* events is the last one it asks for.
C16_EagerAsLazy ==
    /\ all_result.kind = "ok" => all_result.value = DecodeAll(ServedWire)
    /\ \A i \in DOMAIN fetches :
          /\ fetches[i].start < window.end
          /\ (fetches[i].state = "done" /\ fetches[i].wire = << >>) => i = Len(fetches)

\* C14: when the collection has no definitions for the requested name, the
\* command that got the report's fights ends with UnknownFightError of
\* that name, with no fight analysed and no events requested.
C14_UnknownFight ==
    (stage = "returned" /\ report_fights # None /\ phase_definitions[requested] = None) =>
        /\ outcome = UnknownFightError(requested)
        /\ fights = << >>
        /\ fetches = << >>

\* C15: when no fight of the report bears the requested name, the command
\* ends with NoMatchingFights.
C15_NoMatchingFights ==
    (stage = "returned" /\ report_fights # None /\ matching_fights = << >>) =>
        outcome = Err("NoMatchingFights")

\* The fights of the statistics whose progress list has an entry of that name.
SeenIn(stats, name) ==
    { i \in DOMAIN stats : \E j \in DOMAIN stats[i].prog : stats[i].prog[j].phase_name = name }

EntryOf(stats, i, name) ==
    stats[i].prog[CHOOSE j \in DOMAIN stats[i].prog : stats[i].prog[j].phase_name = name]

RECURSIVE MillisOver(_, _, _)
MillisOver(stats, is, name) ==
    IF is = {} THEN 0
    ELSE LET i == CHOOSE x \in is : TRUE IN
         EntryOf(stats, i, name).phase_duration.millis + MillisOver(stats, is \ {i}, name)

\* C17: the summary of one or more fights has one entry per definition, in
\* order; an entry counts the fights whose progress list names the phase,
\* adds up the durations of the phase in those fights, and its clear rate
\* is the number of those fights in which the phase is Clear over that
\* count; the pull count is the number of fights.
C17_Summary ==
    (outcome.kind = "ok" /\ outcome.report_stats # << >>) =>
        LET stats == outcome.report_stats
            summary == outcome.report_summary
            defs == stats[1].definitions IN
        /\ summary.pull_count = Len(stats)
        /\ Len(summary.phases) = Len(defs)
        /\ \A k \in DOMAIN defs :
              LET name == defs[k].phase_name
                  seen == SeenIn(stats, name)
                  cleared == { i \in seen : EntryOf(stats, i, name).phase_cleared = "Clear" } IN
              /\ summary.phases[k].name = name
              /\ summary.phases[k].seen_count = Cardinality(seen)
              /\ summary.phases[k].seen_rate = Ratio(Cardinality(seen), Len(stats))
              /\ summary.phases[k].total_time_spent =
                    [wraps |-> 0, millis |-> MillisOver(stats, seen, name)]
              /\ summary.phases[k].clear_rate = Ratio(Cardinality(cleared), Cardinality(seen))

\* two fights, the first phase seen in both and cleared in one, the second
\* phase seen in that one only and not cleared
C17_Witness ==
    /\ outcome.kind = "ok"
    /\ Len(outcome.report_stats) = 2
    /\ Len(outcome.report_summary.phases) = 2
    /\ outcome.report_summary.phases[1].seen_count = 2
    /\ outcome.report_summary.phases[1].clear_rate = Ratio(1, 2)
    /\ outcome.report_summary.phases[1].total_time_spent.millis > 0
    /\ outcome.report_summary.phases[2].seen_count = 1
    /\ outcome.report_summary.phases[2].clear_rate = Ratio(0, 1)

\* C18: the summary of no fight at all has no phases, 0 pulls, no time
\* spent and an average duration of 0, which is a number.
C18_EmptySummary ==
    (outcome.kind = "ok" /\ outcome.report_stats = << >>) =>
        LET summary == outcome.report_summary IN
        /\ summary.phases = << >>
        /\ summary.pull_count = 0
        /\ summary.total_time_spent_in_fights = NoTime
        /\ summary.average_duration.num = NoTime
        /\ summary.average_duration.den # 0

\* the report lists fights, none of them of the requested encounter
C18_Witness ==
    /\ outcome.kind = "ok"
    /\ outcome.report_stats = << >>
    /\ report_fights[1].fights # << >>
    /\ outcome.reply.phases = << >>

\* C19: the reply prints the never-seen message for a phase exactly when
\* its seen count is 0, and then no rate; a phase that was seen is printed
\* with its rates, which are numbers.
C19_NeverSeen ==
    outcome.kind = "ok" =>
        \A k \in DOMAIN outcome.reply.phases :
            LET stats == outcome.report_summary.phases[k]
                line == outcome.reply.phases[k] IN
            IF stats.seen_count = 0
            THEN /\ line.message = "This phase was never seen."
                 /\ DOMAIN line = {"message", "name"}
            ELSE /\ stats.seen_count > 0
                 /\ line.message = "rates"
                 /\ line.clear_rate = stats.clear_rate
                 /\ line.clear_rate.den # 0
                 /\ line.seen_rate.den # 0

\* of two phases the first was seen and the second never
C19_Witness ==
    /\ outcome.kind = "ok"
    /\ Len(outcome.reply.phases) = 2
    /\ outcome.report_summary.phases[1].seen_count > 0
    /\ outcome.report_summary.phases[2].seen_count = 0
    /\ outcome.report_summary.phases[2].clear_rate = Ratio(0, 0)
    /\ outcome.reply.phases[2].message = "This phase was never seen."

\* C20: a search for the fight start marker that returns has taken exactly
\* one item from the stream: the first event the stream produced, whatever
\* its kind, which it returns, or the end of the sequence, and then it
\* returns none; it polls the stream no more after that.
C20_FightStart ==
    (marker.type = "fightStart" /\ chosen.kind = "ok") =>
        /\ ~late.pull
        /\ IF ended
           THEN yielded = << >> /\ chosen.value = None
           ELSE Len(yielded) = 1 /\ chosen.value = Some(yielded[1])

\* the window's first event is a completed cast, which no marker of the
\* model's event markers matches, and later events were left in the stream
C20_Witness ==
    /\ marker.type = "fightStart"
    /\ chosen.kind = "ok"
    /\ chosen.value # None
    /\ chosen.value[1].type = "cast"
    /\ chosen.value[1] = Decode(InWindow(report, window.start, window.end)[1])
    /\ Len(InWindow(report, window.start, window.end)) > 1

\* The type tag of the events a marker of each kind accepts.
KindOf(evType) ==
    CASE evType = "BeginCast" -> "begincast"
      [] evType = "Cast" -> "cast"
      [] evType = "Death" -> "death"

\* The events received from the stream that are of the marker's kind and
\* carry the marker's ability or target.
OfMarker ==
    SelectSeq(yielded, LAMBDA ev : ev.type = KindOf(marker.evType) /\ ev.id = marker.id)

\* C21: the event a search for an event marker returns is of the marker's
\* kind and carries the marker's ability id (casts) or target id (deaths),
\* and the instances skipped before it are events of that kind and id
\* only: it is the (k+1)-th such event the stream produced.
C21_KindAndField ==
    (marker.type = "event" /\ chosen.kind = "ok" /\ chosen.value # None) =>
        /\ chosen.value[1].type = KindOf(marker.evType)
        /\ chosen.value[1].id = marker.id
        /\ Len(OfMarker) = InstanceNumber + 1
        /\ chosen.value[1] = OfMarker[InstanceNumber + 1]

\* a Death marker returns the death of its target after the death of
\* another target was discarded
C21_Witness ==
    /\ marker.type = "event"
    /\ marker.evType = "Death"
    /\ chosen.kind = "ok"
    /\ chosen.value # None
    /\ Len(yielded) = 2
    /\ yielded[1].type = "death"
    /\ yielded[1].id # marker.id

\* C22: no phase is resolved with a marker matched by an event that has no
\* timestamp: the events matched for the start markers and the end markers
\* of the phases the loop resolved are all of a known kind.
C22_InvalidMatch ==
    \A k \in DOMAIN ForwardPhases :
        /\ definitions[k].start_marker # None =>
              ForwardPhases[k].phase_start_event # UnparseableEvent
        /\ ForwardPhases[k].phase_end_event # Some(UnparseableEvent)

\* C23: an event of a kind the decoder does not know is never handed out by
\* the stream: what a consumer received holds events of known kinds only.
C23_UnknownSkipped == \A i \in DOMAIN yielded : yielded[i] # UnparseableEvent

\* C24: when the fight list the API answered with lacks the report's start
\* or its end, the command ends with UnspecifiedFightTime.
C24_UnspecifiedTime ==
    (/\ stage = "returned"
     /\ report_fights # None
     /\ (report_fights[1].start = None \/ report_fights[1].end = None)) =>
        outcome = Err("UnspecifiedFightTime")

\* The members of a JSON object that carry a value are carried by another
\* with the same value, those of the ability object included.
Carries(w, v) ==
    /\ \A k \in WireKeys \ {"ability"} : IsVal(w[k]) => v[k] = w[k]
    /\ IsVal(w.ability) =>
          /\ IsVal(v.ability)
          /\ \A f \in {"guid", "abilityIcon"} :
                IsVal(w.ability[2][f]) => v.ability[2][f] = w.ability[2][f]

C26_LazyFirstFetch ==
    /\ polled.kind = "init" => fetches = << >>
    /\ (polled.kind # "init" /\ window.start < window.end) => fetches # << >>
    /\ fetches # << >> =>
          /\ fetches[1].start = window.start
          /\ fetches[1].end = window.end

\* the first pull of a stream over [1, 2) returned Pending with the
\* request for that window in flight
C26_Witness ==
    /\ polled.kind = "pending"
    /\ window.start > 0
    /\ Len(fetches) = 1
    /\ fetches[1].state = "pending"
    /\ fetches[1].start = window.start
    /\ fetches[1].end = window.end
    /\ yielded = << >>

\* The pages with events that the stream has taken in.
TakenIn == { i \in DOMAIN fetches : fetches[i].state = "done" /\ fetches[i].wire # << >> }

\* The cursor the last of them carried, the window's start before the first.
LastCursor ==
    IF TakenIn = {} THEN Some(window.start)
    ELSE fetches[CHOOSE i \in TakenIn : \A j \in TakenIn : j <= i].next

EmptyPageTakenIn ==
    /\ Len(fetches) = 1
    /\ fetches[1].state = "done"
    /\ fetches[1].wire = << >>
    /\ fetches[1].next # None
    /\ fetches[1].next[1] < window.end
    /\ polled.kind = "end"

\* A page with events and a cursor past the window's start was taken in,
\* its events were handed out and a second request was made at its cursor.
SecondPageRequested ==
    /\ Len(fetches) = 2
    /\ fetches[1].wire # << >>
    /\ Len(yielded) = Len(fetches[1].wire)
    /\ fetches[1].next[1] > window.start
    /\ fetches[2].start = fetches[1].next[1]

C28_CursorAdvanced ==
    /\ ForwardPhases # << >> =>
          LET last == ForwardPhases[Len(ForwardPhases)] IN
          latest_time_processed = IF last.phase_end # None THEN last.phase_end[1]
                                  ELSE last.phase_start
    /\ pc = "start" =>
          /\ window = [start |-> latest_time_processed, end |-> fight.end_time]
          /\ fetches # << >> => fetches[1].start = latest_time_processed
          /\ \A i \in DOMAIN fetches : fetches[i].end = fight.end_time

\* the first phase ended after it started, and the start marker of the
\* second is being searched for from that end, a request made
C28_Witness ==
    /\ pc = "start"
    /\ idx = 2
    /\ analysed_phases[1].phase_end # None
    /\ analysed_phases[1].phase_end[1] > analysed_phases[1].phase_start
    /\ fetches # << >>
    /\ fetches[1].start = analysed_phases[1].phase_end[1]

\* C29: the search for the end marker of a phase is made over the window
\* from the phase's start to the fight's end, where every request of it
\* ends; when it returns no event the phase joins the resolved phases
\* without end event and end time, and the loop goes on to the next
\* definition, or returns after the last.
C29_EndSearch ==
    [][pc = "end" =>
          /\ window = [start |-> res.phase_start, end |-> fight.end_time]
          /\ \A i \in DOMAIN fetches : fetches[i].end = fight.end_time
          /\ (chosen'.kind = "ok" /\ chosen'.value = None) =>
                /\ (IF pc' = "done" THEN forward' ELSE analysed_phases') =
                      Append(analysed_phases, [res EXCEPT !.phase_end = None,
                                                          !.phase_end_event = None])
                /\ res.phase_end = None
                /\ IF idx < Len(definitions)
                   THEN pc' = "phase" /\ idx' = idx + 1
                   ELSE pc' = "done"]_vars

\* the first of two phases started after the fight's start, its end was
\* searched for from there, through a request, and not found, and the
\* second definition is up
C29_Witness ==
    /\ pc = "phase"
    /\ idx = 2
    /\ definitions[1].end_marker # None
    /\ << 1, "end" >> \in calls
    /\ analysed_phases[1].phase_start > fight.start_time
    /\ analysed_phases[1].phase_end = None
    /\ analysed_phases[1].phase_end_event = None

\* C30: once a pull has signalled the end of the sequence, every later pull
\* signals it again and no request is made.
C30_EndIsFinal ==
    [][polled.kind = "end" => (polled'.kind = "end" /\ fetches' = fetches)]_vars

\* C31: every analysis analyse_fight returns is ordered in time, whichever
\* markers its definitions have: each phase starts at or after the fight's
\* start and before its end, ends (when it has an end) at or after its
\* start, starts at or after the start and the end of the phase before it,
\* and the cursor carried from phase to phase never decreases.
C31_TimeOrdered ==
    /\ \A k \in DOMAIN carried :
          k > 1 => carried[k - 1] <= carried[k]
    /\ pc = "done" =>
          \A k \in DOMAIN analysed_phases :
             LET phase == analysed_phases[k] IN
             /\ fight.start_time <= phase.phase_start
             /\ phase.phase_start < fight.end_time
             /\ phase.phase_end # None => phase.phase_end[1] >= phase.phase_start
             /\ k > 1 =>
                   LET before == analysed_phases[k - 1] IN
                   /\ phase.phase_start >= before.phase_start
                   /\ before.phase_end # None => phase.phase_start >= before.phase_end[1]

\* C32: get_pull_stats subtracts no phase start from an earlier end: the
\* statistics of an analysis are computed without a panic and hold no
\* duration that wrapped round.
C32_NoUnderflow ==
    /\ prog # StatsPanic
    /\ prog.kind = "ok" =>
          /\ ~prog.duration.wrapped
          /\ \A k \in DOMAIN prog.prog : ~prog.prog[k].phase_duration.wrapped

\* C33: the phases resolved for a fight are a prefix of the definitions:
\* there are no more of them than definitions, and the k-th of them carries
\* the name of the k-th definition.
C33_PrefixOfDefinitions ==
    /\ Len(analysed_phases) <= Len(definitions)
    /\ \A k \in DOMAIN analysed_phases :
          analysed_phases[k].phase_name = definitions[k].phase_name

\* the analysis of a fight with two definitions returned the first phase
\* alone, the second phase's start marker having matched no event
C33_Witness ==
    /\ pc = "done"
    /\ Len(definitions) = 2
    /\ stopped_at = 2
    /\ Len(analysed_phases) = 1
    /\ analysed_phases[1].phase_name = definitions[1].phase_name
    /\ definitions[1].start_marker # None

\* C34: in the progress list of a fight every entry before the last is
\* Clear, so that at most one entry is Wiped or Unknown and it is the last.
C34_OnlyLastOpen ==
    prog.kind = "ok" =>
        \A k \in DOMAIN prog.prog :
            k < Len(prog.prog) => prog.prog[k].phase_cleared = "Clear"

\* two phases were resolved, the first of them left without an end time
\* by the analysis, and the second is Unknown
C34_Witness ==
    /\ prog.kind = "ok"
    /\ Len(prog.prog) = 2
    /\ analysed_phases[1].phase_end = None
    /\ prog.prog[1].phase_cleared = "Clear"
    /\ prog.prog[2].phase_cleared = "Unknown"

\* C35: in the summary of fights analysed against one definition list, the
\* seen counts do not increase along the definitions, and for every phase
\* 0 <= cleared count <= seen count <= pull count.
C35_CountsOrdered ==
    outcome.kind = "ok" =>
        LET summary == outcome.report_summary IN
        \A k \in DOMAIN summary.phases :
            LET stats == summary.phases[k]
                cleared_count == stats.clear_rate.num IN
            /\ 0 <= cleared_count
            /\ cleared_count <= stats.seen_count
            /\ stats.seen_count <= summary.pull_count
            /\ k > 1 => stats.seen_count <= summary.phases[k - 1].seen_count

\* two fights were summarised: both reached the first phase and cleared it
\* once, one of them reached the second
C35_Witness ==
    /\ outcome.kind = "ok"
    /\ outcome.report_summary.pull_count = 2
    /\ Len(outcome.report_summary.phases) = 2
    /\ outcome.report_summary.phases[1].seen_count = 2
    /\ outcome.report_summary.phases[1].clear_rate.num = 1
    /\ outcome.report_summary.phases[2].seen_count = 1

\* The fights of the report that bear the requested name, in report order.
NamedFights ==
    IF report_fights = None THEN << >>
    ELSE SelectSeq(report_fights[1].fights, LAMBDA f : f.name = Some(requested))

\* The analyses returned so far are those of the first fights of that name.
AnalysedInOrder ==
    /\ Len(fights) <= Len(NamedFights)
    /\ \A k \in DOMAIN fights :
          /\ fights[k].start_time = NamedFights[k].start_time
          /\ fights[k].end_time = NamedFights[k].end_time

\* The fights are analysed one after the other.
OneFightAtATime ==
    /\ Cardinality(PendingFetches) <= 1
    /\ AnalysedInOrder
    /\ stage \in {"loop", "analysing"} => Len(fights) = fight_no - 1
    /\ stage = "analysing" =>
          /\ fight_no <= Len(NamedFights)
          /\ fight.start_time = NamedFights[fight_no].start_time
          /\ fight.end_time = NamedFights[fight_no].end_time
    /\ stage # "analysing" => fetches = << >> /\ pc = "idle"
    /\ outcome.kind = "ok" =>
          /\ Len(fights) = Len(NamedFights)
          /\ Len(outcome.report_stats) = Len(fights)
    /\ outcome.kind = "err" => "report_stats" \notin DOMAIN outcome

\* The error of a fight is the error of the report, and nothing is done
\* after the report's analysis returned.
FightErrorReturned ==
    /\ (stage = "analysing" /\ pc \in {"api_error", "invalid_match"}) =>
          /\ stage' = "returned"
          /\ outcome' = Err(IF pc = "api_error" THEN "ApiError"
                            ELSE "InvalidEventMatchError")
          /\ fights' = fights
    /\ stage # "returned"

\* C36: the fights of the requested name are analysed one at a time in the
\* report's order, with at most one request pending and none outside the
\* analysis of a fight; a successful analysis of the report holds the
\* analyses of exactly those fights in that order; the error of a fight is
\* returned as the report's, with no result, and no fight is analysed after it.
C36_Sequential == []OneFightAtATime /\ [][FightErrorReturned]_vars

\* the second of two fights of the requested name failed with an ApiError
\* after the first was analysed, and the command returned that error
C36_Witness ==
    /\ stage = "returned"
    /\ outcome = Err("ApiError")
    /\ Len(NamedFights) = 2
    /\ Len(fights) = 1
    /\ fight_no = 2

\* C37: a search for an event marker whose instance number is absent, zero
\* or negative skips nothing: when it returns an event, that event is the
\* first the stream produced that satisfies the marker's predicate, and
\* when it returns none the stream ended without producing one.
C37_NothingSkipped ==
    (marker.type = "event" /\ InstanceNumber <= 0 /\ chosen.kind = "ok") =>
        IF chosen.value = None
        THEN ended /\ Matches = << >>
        ELSE Matches = << chosen.value[1] >>

\* a marker with a negative instance number returned the first of the two
\* matching events of the window
C37_Witness ==
    /\ marker.type = "event"
    /\ InstanceNumber < 0
    /\ chosen.kind = "ok"
    /\ Len(SelectSeq(DecodeAll(InWindow(report, window.start, window.end)),
                     LAMBDA ev : compare_to_event(marker, ev))) > 1
    /\ chosen.value = Some(Decode(InWindow(report, window.start, window.end)[1]))

\* The command ended by the arm of show_typing.
TypingArmTaken == stage = "returned" /\ outcome = Err("CommandError")

\* What the race has come to.
RaceDecided ==
    /\ TypingArmTaken <=> typing = "failed"
    /\ typing = "failed" =>
          /\ pc = "idle"
          /\ fetches = << >>
          /\ next_page = None
    /\ (stage = "returned" /\ typing # "failed") =>
          /\ typing \in {"notify", "delay"}
          /\ \/ outcome.kind = "ok"
             \/ outcome = StatsPanic
             \/ /\ outcome.kind = "err"
                /\ outcome.error \in {"ApiError", "UnlabeledFight", "UnknownFightError",
                                      "InvalidEventMatchError", "UnspecifiedFightTime"}
    /\ outcome.kind = "ok" => typing # "failed"

\* Neither the analysis nor the loop takes a step once the race is decided,
\* and the arm of show_typing is taken by a failed notification only.
RaceOver ==
    /\ stage # "returned"
    /\ typing' # typing => (typing = "notify" \/ typing' = "notify")
    /\ (stage' = "returned" /\ outcome' = Err("CommandError")) =>
          (typing = "notify" /\ typing' = "failed")

\* C38: the analysis races with the typing loop, which ends by a failed
\* notification only: when the analysis finishes first the command's
\* outcome is the analysis' (summary or error) and the loop sends nothing
\* more; when a notification fails first the analysis is dropped with its
\* pending request, the command ends with the CommandError and no summary
\* is replied afterwards.
C38_Race == []RaceDecided /\ [][RaceOver]_vars

\* a notification failed while the second fight of the requested name was
\* being analysed: that analysis and the first fight's are dropped
C38_Witness ==
    /\ typing = "failed"
    /\ TypingArmTaken
    /\ report_fights # None
    /\ Len(fights) = 1
    /\ fight_no = 2

====
